---- MODULE Spec2Model ----
(***************************************************************************)
(* Model of src/app.py: the text-normalisation functions remove_markdown,  *)
(* format_text and clean_and_format_response, the mojibake repair          *)
(* (encode latin-1, decode UTF-8), and the /ask and /doctors handlers.     *)
(*                                                                         *)
(* A Python str is modelled as a sequence of Unicode code points.          *)
(***************************************************************************)
EXTENDS Integers, Sequences, FiniteSets, TLC

(***************************************************************************)
(* Characters and strings                                                  *)
(***************************************************************************)

\* The printable ASCII characters in code-point order, U+0020 .. U+007E (the grave
\* accent stands under its name).
Printable ==
  << " ", "!", "\"", "#", "$", "%", "&", "'", "(", ")", "*", "+", ",", "-", ".", "/",
     "0", "1", "2", "3", "4", "5", "6", "7", "8", "9", ":", ";", "<", "=", ">", "?",
     "@", "A", "B", "C", "D", "E", "F", "G", "H", "I", "J", "K", "L", "M", "N", "O",
     "P", "Q", "R", "S", "T", "U", "V", "W", "X", "Y", "Z", "[", "\\", "]", "^", "_",
     "U+0060", "a", "b", "c", "d", "e", "f", "g", "h", "i", "j", "k", "l", "m", "n", "o",
     "p", "q", "r", "s", "t", "u", "v", "w", "x", "y", "z", "{", "|", "}", "~" >>

\* ord(c) of a one-character string: "\n" is U+000A, "\t" is U+0009.
Ord(c) ==
  IF c = "\n" THEN 10
  ELSE IF c = "\t" THEN 9
  ELSE 31 + (CHOOSE i \in 1..Len(Printable) : Printable[i] = c)

\* The str whose characters are the one-character strings of cs.
Str(cs) == [i \in 1..Len(cs) |-> Ord(cs[i])]

NL == Ord("\n")
Space == Ord(" ")
Star == Ord("*")
Dash == Ord("-")
Quote == Ord("'")
Backslash == Ord("\\")

\* The characters str.strip() removes: those with str.isspace().
Whitespace ==
  {9, 10, 11, 12, 13, 28, 29, 30, 31, 32, 133, 160, 5760, 8232, 8233, 8239, 8287, 12288}
    \cup (8192..8202)

\* The characters of s.
Range(s) == {s[i] : i \in 1..Len(s)}

RECURSIVE Concat(_)
\* The concatenation of a sequence of strings.
Concat(ss) == IF ss = <<>> THEN <<>> ELSE Head(ss) \o Concat(Tail(ss))

RECURSIVE Join(_, _)
\* sep.join(ss)
Join(sep, ss) ==
  IF ss = <<>> THEN <<>>
  ELSE IF Len(ss) = 1 THEN ss[1]
  ELSE ss[1] \o sep \o Join(sep, Tail(ss))

RECURSIVE LStripSet(_, _)
\* s.lstrip(chars)
LStripSet(s, chars) ==
  IF s # <<>> /\ Head(s) \in chars THEN LStripSet(Tail(s), chars) ELSE s

RECURSIVE RStripSet(_, _)
\* s.rstrip(chars)
RStripSet(s, chars) ==
  IF s # <<>> /\ s[Len(s)] \in chars THEN RStripSet(SubSeq(s, 1, Len(s) - 1), chars) ELSE s

\* s.strip(chars)
StripSet(s, chars) == RStripSet(LStripSet(s, chars), chars)

\* s.strip()
Strip(s) == StripSet(s, Whitespace)

\* Whether sub occurs in s at index i (1-based).
OccursAt(s, sub, i) ==
  /\ i >= 1
  /\ i + Len(sub) - 1 <= Len(s)
  /\ \A k \in 1..Len(sub) : s[i + k - 1] = sub[k]

\* sub in s
Contains(s, sub) == \E i \in 1..(Len(s) + 1) : OccursAt(s, sub, i)

RECURSIVE SplitFrom(_, _, _, _)
\* s.split(sep) continued at index i, cur being the piece read so far.
SplitFrom(s, sep, i, cur) ==
  IF i > Len(s) THEN <<cur>>
  ELSE IF OccursAt(s, sep, i) THEN <<cur>> \o SplitFrom(s, sep, i + Len(sep), <<>>)
  ELSE SplitFrom(s, sep, i + 1, Append(cur, s[i]))

\* s.split(sep), sep not empty
Split(s, sep) == SplitFrom(s, sep, 1, <<>>)

(***************************************************************************)
(* remove_markdown                                                         *)
(***************************************************************************)

RECURSIVE BoldClose(_, _)
\* Where the lazy .*? of \*\*.*?\*\* stops: the first index j >= k with "**" at
\* j and no newline in k..j-1 ('.' does not match a newline), or 0.
BoldClose(t, k) ==
  IF k + 1 > Len(t) THEN 0
  ELSE IF t[k] = Star /\ t[k + 1] = Star THEN k
  ELSE IF t[k] = NL THEN 0
  ELSE BoldClose(t, k + 1)

RECURSIVE SubBoldKeepInner(_, _)
\* The bold pass had it deleted only the markers (the replacement '\1' of a
\* grouped inner text).
SubBoldKeepInner(t, i) ==
  IF i > Len(t) THEN <<>>
  ELSE IF i + 1 <= Len(t) /\ t[i] = Star /\ t[i + 1] = Star /\ BoldClose(t, i + 2) > 0
    THEN SubSeq(t, i + 2, BoldClose(t, i + 2) - 1) \o SubBoldKeepInner(t, BoldClose(t, i + 2) + 2)
  ELSE <<t[i]>> \o SubBoldKeepInner(t, i + 1)

RECURSIVE SubBold(_, _)
\* re.sub(r'\*\*.*?\*\*', '', text) from index i on: matches are taken left to
\* right, do not overlap, and each is deleted whole.
SubBold(t, i) ==
  IF i > Len(t) THEN <<>>
  ELSE IF i + 1 <= Len(t) /\ t[i] = Star /\ t[i + 1] = Star /\ BoldClose(t, i + 2) > 0
    THEN SubBold(t, BoldClose(t, i + 2) + 2)
  ELSE <<t[i]>> \o SubBold(t, i + 1)

RECURSIVE SubBullet(_, _)
\* re.sub(r'[\*\-] ', '', text) from index i on.
SubBullet(t, i) ==
  IF i > Len(t) THEN <<>>
  ELSE IF i + 1 <= Len(t) /\ t[i] \in {Star, Dash} /\ t[i + 1] = Space
    THEN SubBullet(t, i + 2)
  ELSE <<t[i]>> \o SubBullet(t, i + 1)

\* The characters of the class [#\*_\[\]()].
MarkdownSymbols == {Ord("#"), Ord("*"), Ord("_"), Ord("["), Ord("]"), Ord("("), Ord(")")}

\* re.sub(r'[#\*_\[\]()]', '', text)
SubSymbols(t) == SelectSeq(t, LAMBDA c : c \notin MarkdownSymbols)

RECURSIVE SubNewlines(_, _)
\* re.sub(r'\n+', '\n', text) from index i on.
SubNewlines(t, i) ==
  IF i > Len(t) THEN <<>>
  ELSE IF t[i] = NL /\ i > 1 /\ t[i - 1] = NL THEN SubNewlines(t, i + 1)
  ELSE <<t[i]>> \o SubNewlines(t, i + 1)

\* remove_markdown(text)
remove_markdown(text) ==
  Strip(SubNewlines(SubSymbols(SubBullet(SubBold(text, 1), 1)), 1))

(***************************************************************************)
(* format_text                                                             *)
(***************************************************************************)

\* format_text had it kept the lines as they are: "\n\n".join(s for s in
\* sections if s.strip()).
format_text_unstripped(text) ==
  Join(<<NL, NL>>, SelectSeq(Split(text, <<NL>>), LAMBDA s : Strip(s) # <<>>))

\* format_text(text)
format_text(text) ==
  LET sections == Split(text, <<NL>>)
      stripped == [i \in 1..Len(sections) |-> Strip(sections[i])]
  IN Join(<<NL, NL>>, SelectSeq(stripped, LAMBDA s : s # <<>>))

(***************************************************************************)
(* ast.literal_eval(f"'''{raw_response}'''")                               *)
(*                                                                         *)
(* The Python source "'''" + payload + "'''" is tokenized and parsed as    *)
(* CPython does, for payloads made of letters, '_', "'", '(', ')', ',',    *)
(* '#', '\', space, tab, newline, carriage return and punctuation that     *)
(* starts no literal (':', '/', '=').                                      *)
(***************************************************************************)

Letters == (65..90) \cup (97..122) \cup {95}

Lower(c) == IF c \in 65..90 THEN c + 32 ELSE c

HexDigits == (48..57) \cup (65..70) \cup (97..102)

HexDigit(c) == IF c \in 48..57 THEN c - 48 ELSE IF c \in 97..102 THEN c - 87 ELSE c - 55

RECURSIVE HexValue(_)
\* int(h, 16)
HexValue(h) ==
  IF h = <<>> THEN 0 ELSE 16 * HexValue(SubSeq(h, 1, Len(h) - 1)) + HexDigit(h[Len(h)])

\* The one-character escapes \n \t \r \a \b \f \v \\ \' \" of a string literal.
SimpleEscapes == {Ord("n"), Ord("t"), Ord("r"), Ord("a"), Ord("b"), Ord("f"), Ord("v"),
                  Ord("\\"), Ord("'"), Ord("\"")}

\* The character a one-character escape stands for.
SimpleEscape(d) ==
  CASE d = Ord("n") -> 10
    [] d = Ord("t") -> 9
    [] d = Ord("r") -> 13
    [] d = Ord("a") -> 7
    [] d = Ord("b") -> 8
    [] d = Ord("f") -> 12
    [] d = Ord("v") -> 11
    [] OTHER -> d

\* How many hex digits follow \x, \u, \U.
EscapeWidth(d) == IF d = Ord("x") THEN 2 ELSE IF d = Ord("u") THEN 4 ELSE 8

TripleQuote == <<Quote, Quote, Quote>>

RECURSIVE ScanString(_, _, _, _, _, _)
\* The body of a string literal from index i of src to its closing quote(s):
\* [ok, val, next], val the string's value and next the index after the literal.
\* ok is FALSE for an unterminated literal and for a malformed \x, \u, \U, \N.
ScanString(src, i, triple, raw, bytes, out) ==
  IF i > Len(src) THEN [ok |-> FALSE, val |-> <<>>, next |-> i]
  ELSE IF src[i] = Backslash THEN
    IF i + 1 > Len(src) THEN [ok |-> FALSE, val |-> <<>>, next |-> i]
    ELSE LET d == src[i + 1] IN
      IF raw THEN ScanString(src, i + 2, triple, raw, bytes, out \o <<Backslash, d>>)
      ELSE IF d = NL THEN ScanString(src, i + 2, triple, raw, bytes, out)
      ELSE IF d \in SimpleEscapes
        THEN ScanString(src, i + 2, triple, raw, bytes, Append(out, SimpleEscape(d)))
      ELSE IF d = Ord("x") \/ (d \in {Ord("u"), Ord("U")} /\ ~bytes) THEN
        LET w == EscapeWidth(d)
            h == SubSeq(src, i + 2, i + 1 + w)
        IN IF i + 1 + w > Len(src) THEN [ok |-> FALSE, val |-> <<>>, next |-> i]
           ELSE IF \E k \in 1..Len(h) : h[k] \notin HexDigits
             THEN [ok |-> FALSE, val |-> <<>>, next |-> i]
           ELSE IF HexValue(h) > 1114111 THEN [ok |-> FALSE, val |-> <<>>, next |-> i]
           ELSE ScanString(src, i + 2 + w, triple, raw, bytes, Append(out, HexValue(h)))
      ELSE IF d = Ord("N") /\ ~bytes THEN [ok |-> FALSE, val |-> <<>>, next |-> i]
      ELSE ScanString(src, i + 2, triple, raw, bytes, out \o <<Backslash, d>>)
  ELSE IF triple /\ OccursAt(src, TripleQuote, i) THEN [ok |-> TRUE, val |-> out, next |-> i + 3]
  ELSE IF ~triple /\ src[i] = Quote THEN [ok |-> TRUE, val |-> out, next |-> i + 1]
  ELSE IF ~triple /\ src[i] = NL THEN [ok |-> FALSE, val |-> <<>>, next |-> i]
  ELSE ScanString(src, i + 1, triple, raw, bytes, Append(out, src[i]))

RECURSIVE NameEnd(_, _)
\* The index after the run of identifier characters that starts at i.
NameEnd(src, i) == IF i <= Len(src) /\ src[i] \in Letters THEN NameEnd(src, i + 1) ELSE i

RECURSIVE LineEnd(_, _)
\* The index of the newline that ends the line of index i, or Len(src) + 1.
LineEnd(src, i) == IF i <= Len(src) /\ src[i] # NL THEN LineEnd(src, i + 1) ELSE i

\* The string prefixes, lower-cased: none, r, u, b, br, rb, f, fr, rf.
StringPrefixes ==
  {<<>>, Str(<<"r">>), Str(<<"u">>), Str(<<"b">>), Str(<<"b", "r">>), Str(<<"r", "b">>),
   Str(<<"f">>), Str(<<"f", "r">>), Str(<<"r", "f">>)}

\* What every token record holds; a STR token sets kind and val, a NAME token val.
Token(t) == [t |-> t, kind |-> "", val |-> <<>>]

ErrorToken == Token("ERROR")

RECURSIVE Tokenize(_, _, _, _)
\* The tokens of src from index i on, toks being those read so far and depth the
\* number of open parentheses; ends in ErrorToken when the tokenizer rejects src.
Tokenize(src, i, depth, toks) ==
  IF i > Len(src) THEN (IF depth = 0 THEN toks ELSE Append(toks, ErrorToken))
  ELSE LET c == src[i] IN
    IF c \in {Space, Ord("\t")} THEN Tokenize(src, i + 1, depth, toks)
    ELSE IF c = Ord("#") THEN Tokenize(src, LineEnd(src, i), depth, toks)
    ELSE IF c = NL THEN
      IF depth = 0 /\ toks # <<>> /\ toks[Len(toks)].t # "NEWLINE"
        THEN Tokenize(src, i + 1, depth, Append(toks, Token("NEWLINE")))
      ELSE Tokenize(src, i + 1, depth, toks)
    ELSE IF c = Backslash THEN
      IF i + 1 <= Len(src) /\ src[i + 1] = NL THEN Tokenize(src, i + 2, depth, toks)
      ELSE Append(toks, ErrorToken)
    ELSE IF c = Ord("(") THEN Tokenize(src, i + 1, depth + 1, Append(toks, Token("LP")))
    ELSE IF c = Ord(")") THEN
      IF depth = 0 THEN Append(toks, ErrorToken)
      ELSE Tokenize(src, i + 1, depth - 1, Append(toks, Token("RP")))
    ELSE IF c = Ord(",") THEN Tokenize(src, i + 1, depth, Append(toks, Token("COMMA")))
    ELSE IF c \in Letters \/ c = Quote THEN
      LET j == NameEnd(src, i)
          name == SubSeq(src, i, j - 1)
          prefix == [k \in 1..Len(name) |-> Lower(name[k])]
      IN IF j <= Len(src) /\ src[j] = Quote /\ prefix \in StringPrefixes THEN
           LET triple == OccursAt(src, TripleQuote, j)
               isRaw == Ord("r") \in Range(prefix)
               isBytes == Ord("b") \in Range(prefix)
               isF == Ord("f") \in Range(prefix)
               lit == ScanString(src, j + (IF triple THEN 3 ELSE 1), triple, isRaw, isBytes, <<>>)
           IN IF ~lit.ok THEN Append(toks, ErrorToken)
              ELSE Tokenize(src, lit.next, depth,
                     Append(toks, [t |-> "STR",
                                   kind |-> IF isBytes THEN "bytes" ELSE IF isF THEN "fstr" ELSE "str",
                                   val |-> lit.val]))
         ELSE Tokenize(src, j, depth, Append(toks, [t |-> "NAME", kind |-> "", val |-> name]))
    ELSE Append(toks, ErrorToken)

NoValue == [ok |-> FALSE, kind |-> "none", val |-> <<>>, next |-> 0]

RECURSIVE StringsEnd(_, _)
\* The index after the run of adjacent string literals that starts at k.
StringsEnd(toks, k) ==
  IF k <= Len(toks) /\ toks[k].t = "STR" THEN StringsEnd(toks, k + 1) ELSE k

\* The names that are constants.
ConstantNames ==
  {Str(<<"T", "r", "u", "e">>), Str(<<"F", "a", "l", "s", "e">>), Str(<<"N", "o", "n", "e">>)}

RECURSIVE ParseAtom(_, _)
RECURSIVE ParseList(_, _)
RECURSIVE ParseMore(_, _)

\* One operand at token k: adjacent string literals (a str, or bytes), a constant
\* name, or a parenthesised list. [ok, kind, val, next]; kind is "str" or "other".
ParseAtom(toks, k) ==
  IF k > Len(toks) THEN NoValue
  ELSE IF toks[k].t = "STR" THEN
    LET e == StringsEnd(toks, k)
        kinds == {toks[m].kind : m \in k..(e - 1)}
    IN IF "fstr" \in kinds \/ Cardinality(kinds) > 1 THEN NoValue
       ELSE IF kinds = {"bytes"} THEN [ok |-> TRUE, kind |-> "other", val |-> <<>>, next |-> e]
       ELSE [ok |-> TRUE, kind |-> "str",
             val |-> Concat([m \in 1..(e - k) |-> toks[k + m - 1].val]), next |-> e]
  ELSE IF toks[k].t = "NAME" THEN
    IF toks[k].val \in ConstantNames
      THEN [ok |-> TRUE, kind |-> "other", val |-> <<>>, next |-> k + 1]
    ELSE NoValue
  ELSE IF toks[k].t = "LP" THEN
    IF k + 1 <= Len(toks) /\ toks[k + 1].t = "RP"
      THEN [ok |-> TRUE, kind |-> "other", val |-> <<>>, next |-> k + 2]
    ELSE LET r == ParseList(toks, k + 1) IN
      IF ~r.ok \/ r.next > Len(toks) THEN NoValue
      ELSE IF toks[r.next].t # "RP" THEN NoValue
      ELSE [r EXCEPT !.next = r.next + 1]
  ELSE NoValue

\* After an operand, at token k: the "," operand pairs and a last "," that may
\* follow. [ok, commas, next].
ParseMore(toks, k) ==
  IF k <= Len(toks) /\ toks[k].t = "COMMA" THEN
    IF k + 1 <= Len(toks) /\ toks[k + 1].t \in {"STR", "NAME", "LP"} THEN
      LET a == ParseAtom(toks, k + 1) IN
        IF ~a.ok THEN [ok |-> FALSE, commas |-> TRUE, next |-> k]
        ELSE [ParseMore(toks, a.next) EXCEPT !.commas = TRUE]
    ELSE [ok |-> TRUE, commas |-> TRUE, next |-> k + 1]
  ELSE [ok |-> TRUE, commas |-> FALSE, next |-> k]

\* operand ("," operand)* [","] at token k: the operand itself when it stands
\* alone, a tuple as soon as there is a comma.
ParseList(toks, k) ==
  LET a == ParseAtom(toks, k) IN
    IF ~a.ok THEN NoValue
    ELSE LET m == ParseMore(toks, a.next) IN
      IF ~m.ok THEN NoValue
      ELSE IF m.commas THEN [ok |-> TRUE, kind |-> "other", val |-> <<>>, next |-> m.next]
      ELSE a

RECURSIVE NormalizeNewlines(_, _)
\* The source as the tokenizer reads it: "\r\n" and "\r" are newlines.
NormalizeNewlines(src, i) ==
  IF i > Len(src) THEN <<>>
  ELSE IF src[i] = 13 THEN
    <<NL>> \o NormalizeNewlines(src, IF i + 1 <= Len(src) /\ src[i + 1] = NL THEN i + 2 ELSE i + 1)
  ELSE <<src[i]>> \o NormalizeNewlines(src, i + 1)

\* ast.literal_eval(f"'''{payload}'''"): [type, val]. type is "str" with the
\* value in val, "tuple" for a value that is not a str (the source starts with
\* a str literal, so such a value is a tuple), "raised" for an exception.
LiteralEval(payload) ==
  LET src == NormalizeNewlines(TripleQuote \o payload \o TripleQuote, 1)
      toks == Tokenize(src, 1, 0, <<>>)
  IN IF 0 \in Range(src) \/ (toks # <<>> /\ toks[Len(toks)].t = "ERROR")
       THEN [type |-> "raised", val |-> <<>>]
     ELSE LET r == ParseList(toks, 1) IN
       IF ~r.ok THEN [type |-> "raised", val |-> <<>>]
       ELSE IF ~(r.next > Len(toks) \/ (r.next = Len(toks) /\ toks[r.next].t = "NEWLINE"))
         THEN [type |-> "raised", val |-> <<>>]
       ELSE IF r.kind = "str" THEN [type |-> "str", val |-> r.val]
       ELSE [type |-> "tuple", val |-> <<>>]

(***************************************************************************)
(* clean_and_format_response: the pieces                                   *)
(***************************************************************************)

\* "data="
DataMarker == Str(<<"d", "a", "t", "a", "=">>)

\* raw_response.split("data=")[1]: what follows the first marker, up to the next.
AfterFirstMarker(s) == Split(s, DataMarker)[2]

\* raw_response.split("data=")[-1]: what follows the last marker.
AfterLastMarker(s) == Split(s, DataMarker)[Len(Split(s, DataMarker))]

\* The characters of strip("()'").
WrapperChars == {Ord("("), Ord(")"), Quote}

\* "http://", "https://", "\nSource:", "\nDate: ", "\n\n"
HttpScheme == Str(<<"h", "t", "t", "p", ":", "/", "/">>)
HttpsScheme == Str(<<"h", "t", "t", "p", "s", ":", "/", "/">>)
SourceLine == Str(<<"\n", "S", "o", "u", "r", "c", "e", ":">>)
DateLine == Str(<<"\n", "D", "a", "t", "e", ":", " ">>)
BlankLine == <<NL, NL>>

RECURSIVE NonSpaceEnd(_, _)
\* The index after the run of non-whitespace characters that starts at k: where
\* the greedy \S+ stops.
NonSpaceEnd(s, k) ==
  IF k <= Len(s) /\ s[k] \notin Whitespace THEN NonSpaceEnd(s, k + 1) ELSE k

RECURSIVE FirstIndexOf(_, _, _)
\* The first index >= from at which sub occurs in s, or 0: where a lazy .*? with
\* re.DOTALL stops before sub.
FirstIndexOf(s, sub, from) ==
  IF from + Len(sub) - 1 > Len(s) THEN 0
  ELSE IF OccursAt(s, sub, from) THEN from
  ELSE FirstIndexOf(s, sub, from + 1)

RECURSIVE LastIndexOf(_, _, _)
\* The last index >= from at which sub occurs in s, or 0: where a greedy .* stops.
LastIndexOf(s, sub, from) ==
  IF from + Len(sub) - 1 > Len(s) THEN 0
  ELSE LET later == LastIndexOf(s, sub, from + 1)
       IN IF later > 0 THEN later ELSE IF OccursAt(s, sub, from) THEN from ELSE 0

\* The index after "http://" or "https://" at i, or 0.
UrlBodyStart(s, i) ==
  IF OccursAt(s, HttpScheme, i) THEN i + Len(HttpScheme)
  ELSE IF OccursAt(s, HttpsScheme, i) THEN i + Len(HttpsScheme)
  ELSE 0

\* match.end() had the two wildcards been greedy: the last "\nDate: " and the
\* last "\n\n".
MatchEndAtGreedy(s, i) ==
  LET b == UrlBodyStart(s, i)
      u == NonSpaceEnd(s, b)
  IN IF b = 0 \/ u = b \/ ~OccursAt(s, SourceLine, u) THEN 0
     ELSE LET d == FirstIndexOf(s, DateLine, u + Len(SourceLine))
              e == IF d = 0 THEN 0 ELSE LastIndexOf(s, BlankLine, d + Len(DateLine))
          IN IF e = 0 THEN 0 ELSE e + 1

\* match.end() of https?://\S+\nSource:.*?\nDate: .*?\n\n matched at index i
\* (the number of characters of s up to the end of the match), or 0 when the
\* pattern does not match there.
MatchEndAt(s, i) ==
  LET b == UrlBodyStart(s, i)
      u == NonSpaceEnd(s, b)
  IN IF b = 0 \/ u = b \/ ~OccursAt(s, SourceLine, u) THEN 0
     ELSE LET d == FirstIndexOf(s, DateLine, u + Len(SourceLine))
              e == IF d = 0 THEN 0 ELSE FirstIndexOf(s, BlankLine, d + Len(DateLine))
          IN IF e = 0 THEN 0 ELSE e + 1

RECURSIVE SearchFrom(_, _)
\* re.search from index i on: match.end() of the leftmost match, or 0.
SearchFrom(s, i) ==
  IF i > Len(s) THEN 0
  ELSE IF MatchEndAt(s, i) > 0 THEN MatchEndAt(s, i)
  ELSE SearchFrom(s, i + 1)

\* re.search(r"https?://\S+\nSource:.*?\nDate: .*?\n\n", s, re.DOTALL):
\* match.end(), or 0 for None.
Search(s) == SearchFrom(s, 1)

RECURSIVE NewlineRunEnd(_, _)
\* The index after the run of newlines that starts at i.
NewlineRunEnd(s, i) == IF i <= Len(s) /\ s[i] = NL THEN NewlineRunEnd(s, i + 1) ELSE i

RECURSIVE CollapseNewlines(_, _)
\* re.sub(r"\n{3,}", "\n\n", s) from index i on.
CollapseNewlines(s, i) ==
  IF i > Len(s) THEN <<>>
  ELSE IF NewlineRunEnd(s, i) - i >= 3
    THEN <<NL, NL>> \o CollapseNewlines(s, NewlineRunEnd(s, i))
  ELSE <<s[i]>> \o CollapseNewlines(s, i + 1)

\* The length of the separator line, '-'*100.
DashCount == 100

SeparatorLine == [i \in 1..DashCount |-> Dash]

(***************************************************************************)
(* str.encode('latin1'), bytes.decode('utf-8') and their inverses          *)
(*                                                                         *)
(* bytes are sequences of integers 0..255.                                 *)
(***************************************************************************)

Surrogates == 55296..57343

\* The UTF-8 bytes of one code point.
Utf8Bytes(c) ==
  IF c < 128 THEN <<c>>
  ELSE IF c < 2048 THEN <<192 + (c \div 64), 128 + (c % 64)>>
  ELSE IF c < 65536 THEN <<224 + (c \div 4096), 128 + ((c \div 64) % 64), 128 + (c % 64)>>
  ELSE <<240 + (c \div 262144), 128 + ((c \div 4096) % 64), 128 + ((c \div 64) % 64),
         128 + (c % 64)>>

\* s.encode('utf-8'): [ok, bytes]; a lone surrogate cannot be encoded.
Utf8Encode(s) ==
  IF \E i \in 1..Len(s) : s[i] \in Surrogates THEN [ok |-> FALSE, bytes |-> <<>>]
  ELSE [ok |-> TRUE, bytes |-> Concat([i \in 1..Len(s) |-> Utf8Bytes(s[i])])]

\* b.decode('latin1'): byte n is the character U+00nn.
Latin1Decode(b) == [i \in 1..Len(b) |-> b[i]]

\* s.encode('ascii'): only characters below U+0080 can be encoded.
AsciiEncode(s) ==
  IF \E i \in 1..Len(s) : s[i] > 127 THEN [ok |-> FALSE, bytes |-> <<>>]
  ELSE [ok |-> TRUE, bytes |-> [i \in 1..Len(s) |-> s[i]]]

\* s.encode('latin1'): [ok, bytes]; only characters up to U+00FF can be encoded.
Latin1Encode(s) ==
  IF \E i \in 1..Len(s) : s[i] > 255 THEN [ok |-> FALSE, bytes |-> <<>>]
  ELSE [ok |-> TRUE, bytes |-> [i \in 1..Len(s) |-> s[i]]]

Continuation == 128..191

\* Whether a well-formed UTF-8 sequence of n bytes starts at index i of b: the
\* lead byte fixes n and the range of the second byte (no overlong forms, no
\* surrogates, nothing above U+10FFFF).
WellFormedAt(b, i, n) ==
  /\ i + n - 1 <= Len(b)
  /\ \A k \in (i + 1)..(i + n - 1) : b[k] \in Continuation
  /\ CASE n = 1 -> b[i] < 128
       [] n = 2 -> b[i] \in 194..223
       [] n = 3 -> \/ b[i] = 224 /\ b[i + 1] >= 160
                   \/ b[i] \in (225..236) \cup (238..239)
                   \/ b[i] = 237 /\ b[i + 1] <= 159
       [] n = 4 -> \/ b[i] = 240 /\ b[i + 1] >= 144
                   \/ b[i] \in 241..243
                   \/ b[i] = 244 /\ b[i + 1] <= 143
       [] OTHER -> FALSE

\* The code point of the well-formed sequence of n bytes at index i of b.
Utf8CodePoint(b, i, n) ==
  CASE n = 1 -> b[i]
    [] n = 2 -> (b[i] - 192) * 64 + (b[i + 1] - 128)
    [] n = 3 -> (b[i] - 224) * 4096 + (b[i + 1] - 128) * 64 + (b[i + 2] - 128)
    [] OTHER -> (b[i] - 240) * 262144 + (b[i + 1] - 128) * 4096 + (b[i + 2] - 128) * 64
                  + (b[i + 3] - 128)

RECURSIVE Utf8DecodeFrom(_, _, _)
\* b.decode('utf-8') from index i on, out being the characters decoded so far.
Utf8DecodeFrom(b, i, out) ==
  IF i > Len(b) THEN [ok |-> TRUE, val |-> out]
  ELSE IF \E n \in 1..4 : WellFormedAt(b, i, n) THEN
    LET n == CHOOSE n \in 1..4 : WellFormedAt(b, i, n)
    IN Utf8DecodeFrom(b, i + n, Append(out, Utf8CodePoint(b, i, n)))
  ELSE [ok |-> FALSE, val |-> <<>>]

\* b.decode('utf-8'): [ok, val]; ok is FALSE for a UnicodeDecodeError.
Utf8Decode(b) == Utf8DecodeFrom(b, 1, <<>>)

\* text.encode('latin1').decode('utf-8'): [ok, val, error]; error names the
\* exception raised.
Repair(s) ==
  IF ~Latin1Encode(s).ok
    THEN [ok |-> FALSE, val |-> <<>>, error |-> "'latin-1' codec can't encode character"]
  ELSE IF ~Utf8Decode(Latin1Encode(s).bytes).ok
    THEN [ok |-> FALSE, val |-> <<>>, error |-> "'utf-8' codec can't decode byte"]
  ELSE [ok |-> TRUE, val |-> Utf8Decode(Latin1Encode(s).bytes).val, error |-> ""]

(***************************************************************************)
(* The inline-safe form of the answer                                      *)
(***************************************************************************)

RECURSIVE InlineSafe(_)
\* agent_answer.replace("\n", " ").replace('"', '\\"').replace("'", "\\'")
InlineSafe(s) ==
  IF s = <<>> THEN <<>>
  ELSE (IF Head(s) = NL THEN <<Space>>
        ELSE IF Head(s) \in {Ord("\""), Quote} THEN <<Backslash, Head(s)>>
        ELSE <<Head(s)>>) \o InlineSafe(Tail(s))

(***************************************************************************)
(* State                                                                   *)
(***************************************************************************)

VARIABLES
  \* remove_markdown and format_text, applied by a caller
  text,            \* the parameter `text`, then the value returned
  origin,          \* the string the caller passed in this pass
  applied,         \* the functions applied to `origin` so far, in order
  pass,            \* 1, and 2 once the cleaned text has been fed back in
  \* clean_and_format_response
  raw_arg,         \* the argument of the call
  raw_response,    \* the local `raw_response`, a str unless raw_type says otherwise
  raw_type,        \* "str", or "tuple" once literal_eval has returned a tuple
  match_end,       \* match.end(), 0 while there is no match
  articles_part,
  summary_part,
  step,            \* the step of the function that runs next
  returned,        \* what the call returned or raised
  \* the /ask and /doctors handlers
  route,           \* the route the request came in on
  body,            \* request.json
  at,              \* where the handler stands
  calls,           \* the downstream calls made so far, in order
  question,
  output_language,
  agent_answer,
  safe_response,
  condition,
  location,
  intended,        \* the text the upstream model meant, and whether it sent it mis-decoded
  summ,            \* summ_model.run(...)["data"], and doctors.data in /doctors
  corrected_text,  \* and doc_response in /doctors
  summary,
  response         \* the response returned: its status and its JSON body

mdVars == <<text, origin, applied, pass>>

cleanVars == <<raw_arg, raw_response, raw_type, match_end, articles_part, summary_part, step,
               returned>>

httpVars == <<route, body, at, calls, question, output_language, agent_answer, safe_response,
              condition, location, intended, summ, corrected_text, summary, response>>

vars == <<mdVars, cleanVars, httpVars>>

NoReturn == [kind |-> "none", val |-> <<>>, error |-> ""]

NoResponse == [status |-> 0, error |-> "", response |-> <<>>, summary |-> <<>>, doctors |-> <<>>]

NoIntent == [mode |-> "none", original |-> <<>>]

\* The functions and handlers that are not running.
MdIdle == text = <<>> /\ origin = <<>> /\ applied = <<>> /\ pass = 0

CleanIdle ==
  /\ raw_arg = <<>> /\ raw_response = <<>> /\ raw_type = "str" /\ match_end = 0
  /\ articles_part = <<>> /\ summary_part = <<>> /\ step = "idle" /\ returned = NoReturn

HttpIdle ==
  /\ route = "none" /\ body = [kind |-> "null", fields |-> <<>>] /\ at = "idle" /\ calls = <<>>
  /\ question = <<>> /\ output_language = "" /\ agent_answer = <<>> /\ safe_response = <<>>
  /\ condition = <<>> /\ location = <<>> /\ intended = NoIntent /\ summ = <<>>
  /\ corrected_text = <<>> /\ summary = <<>> /\ response = NoResponse

RECURSIVE ChunkStrings(_, _)
\* The strings made of at most n pieces out of chunks.
ChunkStrings(chunks, n) ==
  IF n = 0 THEN {<<>>}
  ELSE LET shorter == ChunkStrings(chunks, n - 1)
       IN shorter \cup {p \o c : p \in shorter, c \in chunks}

(***************************************************************************)
(* SpecMarkdown: remove_markdown and format_text applied by a caller       *)
(***************************************************************************)

\* Most pieces an input of remove_markdown / format_text is made of.
MaxMdChunks == 4

\* Most times a text is cleaned: once, then again on its own output.
MaxPasses == 2

MdChunks == {Str(<<"*", "*">>), Str(<<"-">>), Str(<<" ">>), Str(<<"a">>), Str(<<"\n">>), Str(<<"_">>)}

\* "**Title** body"
BoldExample == Str(<<"*", "*", "T", "i", "t", "l", "e", "*", "*", " ", "b", "o", "d", "y">>)

\* "a\n\n\nb\n  \nc"
ParagraphExample == Str(<<"a", "\n", "\n", "\n", "b", "\n", " ", " ", "\n", "c">>)

\* "a - b"
HyphenExample == Str(<<"a", " ", "-", " ", "b">>)

\* "  a  \n\n b": lines with whitespace around their words, and a blank line
PaddedExample == Str(<<" ", " ", "a", " ", " ", "\n", "\n", " ", "b">>)

MdInputs ==
  ChunkStrings(MdChunks, MaxMdChunks)
    \cup {BoldExample, ParagraphExample, HyphenExample, PaddedExample}

MdInit ==
  /\ origin \in MdInputs
  /\ text = origin
  /\ applied = <<>>
  /\ pass = 1
  /\ CleanIdle
  /\ HttpIdle

\* form_response = remove_markdown(formatted_response)
RemoveMarkdown ==
  /\ applied = <<>>
  /\ text' = remove_markdown(text)
  /\ applied' = <<"remove_markdown">>
  /\ UNCHANGED <<origin, pass, cleanVars, httpVars>>

\* agent_answer = format_text(form_response), and format_text on a text as it is.
FormatText ==
  /\ applied \in {<<>>, <<"remove_markdown">>}
  /\ text' = format_text(text)
  /\ applied' = Append(applied, "format_text")
  /\ UNCHANGED <<origin, pass, cleanVars, httpVars>>

\* The cleaned text is cleaned again.
Reapply ==
  /\ applied = <<"remove_markdown", "format_text">>
  /\ pass < MaxPasses
  /\ origin' = text
  /\ applied' = <<>>
  /\ pass' = pass + 1
  /\ UNCHANGED <<text, cleanVars, httpVars>>

MdNext == RemoveMarkdown \/ FormatText \/ Reapply

SpecMarkdown == MdInit /\ [][MdNext]_vars

(***************************************************************************)
(* SpecClean: clean_and_format_response, step by step                      *)
(***************************************************************************)

\* Most pieces an argument of clean_and_format_response is made of.
MaxCleanChunks == 4

\* Pieces of an envelope: the marker, the wrapper characters, blanks, a payload letter.
EnvelopeChunks ==
  {DataMarker, Str(<<"(">>), Str(<<")">>), Str(<<"'">>), Str(<<" ">>), Str(<<"X">>)}

\* Pieces of a payload that is read as a literal: quotes, a comma, a comment
\* sign, a backslash, the escape \n.
LiteralChunks ==
  {Str(<<"X">>), TripleQuote, Str(<<",">>), Str(<<"#">>), Str(<<"\\">>), Str(<<"\\", "n">>)}

\* Pieces of a news payload: the head of an entry block, its Date line (with and
\* without the blank after the colon), newlines, a word.
SplitChunks ==
  {Str(<<"h", "t", "t", "p", ":", "/", "/", "a", "\n", "S", "o", "u", "r", "c", "e", ":", " ", "S", "\n">>),
   Str(<<"D", "a", "t", "e", ":", " ", "D", "\n", "\n">>),
   Str(<<"D", "a", "t", "e", ":", "D", "\n", "\n">>),
   Str(<<"\n", "\n", "\n">>),
   Str(<<"T">>)}

\* "Wrapper(data='X\\nY')": the escape is a backslash and an n.
EnvelopeExample ==
  Str(<<"W", "r", "a", "p", "p", "e", "r", "(", "d", "a", "t", "a", "=", "'", "X", "\\", "n", "Y",
        "'", ")">>)

\* "http://a\nSource: S\nDate: D\n\nSUMMARY TEXT"
SplitExample ==
  Str(<<"h", "t", "t", "p", ":", "/", "/", "a", "\n", "S", "o", "u", "r", "c", "e", ":", " ", "S",
        "\n", "D", "a", "t", "e", ":", " ", "D", "\n", "\n", "S", "U", "M", "M", "A", "R", "Y", " ",
        "T", "E", "X", "T">>)

\* "just plain text"
PlainExample ==
  Str(<<"j", "u", "s", "t", " ", "p", "l", "a", "i", "n", " ", "t", "e", "x", "t">>)

CleanInputs ==
  ChunkStrings(EnvelopeChunks, MaxCleanChunks) \cup ChunkStrings(LiteralChunks, MaxCleanChunks)
    \cup ChunkStrings(SplitChunks, MaxCleanChunks)
    \cup {EnvelopeExample, SplitExample, PlainExample}

CleanInit ==
  /\ raw_arg \in CleanInputs
  /\ raw_response = raw_arg
  /\ raw_type = "str"
  /\ match_end = 0
  /\ articles_part = <<>>
  /\ summary_part = <<>>
  /\ step = "extract"
  /\ returned = NoReturn
  /\ MdIdle
  /\ HttpIdle

\* if "data=" in raw_response: raw_response = raw_response.split("data=")[-1].strip()
ExtractData ==
  /\ step = "extract"
  /\ raw_response' = IF Contains(raw_response, DataMarker)
                       THEN Strip(AfterLastMarker(raw_response))
                     ELSE raw_response
  /\ step' = "strip"
  /\ UNCHANGED <<raw_arg, raw_type, match_end, articles_part, summary_part, returned>>
  /\ UNCHANGED <<mdVars, httpVars>>

\* raw_response = raw_response.strip("()'")
StripWrapper ==
  /\ step = "strip"
  /\ raw_response' = StripSet(raw_response, WrapperChars)
  /\ step' = "decode"
  /\ UNCHANGED <<raw_arg, raw_type, match_end, articles_part, summary_part, returned>>
  /\ UNCHANGED <<mdVars, httpVars>>

\* try: raw_response = ast.literal_eval(f"'''{raw_response}'''")
\* except Exception: pass
DecodeEscapes ==
  /\ step = "decode"
  /\ LET v == LiteralEval(raw_response)
     IN /\ raw_type' = IF v.type = "raised" THEN raw_type ELSE v.type
        /\ raw_response' = IF v.type = "raised" THEN raw_response ELSE v.val
  /\ step' = "search"
  /\ UNCHANGED <<raw_arg, match_end, articles_part, summary_part, returned>>
  /\ UNCHANGED <<mdVars, httpVars>>

\* match = re.search(...); the two parts when it matched, else
\* return raw_response.strip(). re.search raises TypeError when raw_response is
\* not a str.
FindSplit ==
  /\ step = "search"
  /\ IF raw_type # "str" THEN
       /\ returned' = [kind |-> "raised", val |-> <<>>,
                       error |-> "TypeError: expected string or bytes-like object"]
       /\ step' = "done"
       /\ UNCHANGED <<match_end, articles_part, summary_part>>
     ELSE IF Search(raw_response) = 0 THEN
       /\ returned' = [kind |-> "str", val |-> Strip(raw_response), error |-> ""]
       /\ step' = "done"
       /\ UNCHANGED <<match_end, articles_part, summary_part>>
     ELSE
       /\ match_end' = Search(raw_response)
       /\ articles_part' = Strip(SubSeq(raw_response, 1, match_end'))
       /\ summary_part' = Strip(SubSeq(raw_response, match_end' + 1, Len(raw_response)))
       /\ step' = "format"
       /\ UNCHANGED returned
  /\ UNCHANGED <<raw_arg, raw_response, raw_type>>
  /\ UNCHANGED <<mdVars, httpVars>>

\* formatted_articles, formatted_summary and the f-string returned
FormatParts ==
  /\ step = "format"
  /\ returned' = [kind |-> "str",
                  val |-> CollapseNewlines(articles_part, 1) \o <<NL, NL>> \o SeparatorLine
                            \o <<NL, NL>> \o CollapseNewlines(summary_part, 1),
                  error |-> ""]
  /\ step' = "done"
  /\ UNCHANGED <<raw_arg, raw_response, raw_type, match_end, articles_part, summary_part>>
  /\ UNCHANGED <<mdVars, httpVars>>

CleanNext == ExtractData \/ StripWrapper \/ DecodeEscapes \/ FindSplit \/ FormatParts

SpecClean == CleanInit /\ [][CleanNext]_vars

(***************************************************************************)
(* SpecHttp: the /ask and /doctors handlers                                *)
(***************************************************************************)

\* Most characters of the text a model integration sends back.
MaxTextLen == 2

\* Characters of those texts: ASCII, latin-1 letters and signs (among them the
\* bytes of a mis-decoded e-acute, U+00C3 U+00A9), characters of two, three and
\* four UTF-8 bytes, and a lone surrogate.
TextChars == {Ord("a"), Ord("*"), 127, 128, 169, 195, 233, 255, 256, 2047, 2048, 8364, 55296,
              65535, 65536, 1114111}

RECURSIVE Texts(_)
\* The texts of at most n characters.
Texts(n) ==
  IF n = 0 THEN {<<>>}
  ELSE Texts(n - 1) \cup {Append(t, c) : t \in Texts(n - 1), c \in TextChars}

\* What the integration sends for the text s it means: s itself, or the UTF-8
\* bytes of s decoded as latin-1.
Sent(mode, s) == IF mode = "misdecoded" THEN Latin1Decode(Utf8Encode(s).bytes) ELSE s

\* What the integration means and how it sends it; text with a lone surrogate
\* has no UTF-8 bytes to mis-decode.
Intents ==
  {[mode |-> "correct", original |-> s] : s \in Texts(MaxTextLen)}
    \cup {[mode |-> "misdecoded", original |-> s] : s \in {t \in Texts(MaxTextLen) : Utf8Encode(t).ok}}

\* request.json: a JSON object with its fields, a JSON array, or null.
AskBodies ==
  {[kind |-> "object", fields |-> f] :
     f \in {<<>>, [question |-> <<>>], [question |-> Str(<<"f", "e", "v", "e", "r">>)],
            [condition |-> Str(<<"f", "l", "u">>)]}}
    \cup {[kind |-> "array", fields |-> <<>>], [kind |-> "null", fields |-> <<>>]}

DoctorsBodies ==
  {[kind |-> "object", fields |-> f] :
     f \in {<<>>, [condition |-> Str(<<"f", "l", "u">>)],
            [condition |-> Str(<<"f", "l", "u">>), location |-> <<>>],
            [condition |-> Str(<<"f", "l", "u">>), location |-> Str(<<"P", "u", "n", "e">>)]}}
    \cup {[kind |-> "array", fields |-> <<>>], [kind |-> "null", fields |-> <<>>]}

\* agent_response["data"]["output"]
AgentOutputs ==
  {Str(<<"*", "*", "T", "i", "p", "*", "*", "\n", "-", " ", "r", "e", "s", "t">>),
   Str(<<"s", "a", "y", " ", "'", "a", "h", "'">>)}

\* detect(question)
Languages == {"en", "hi"}

\* data.get(key, "")
Get(data, key) == IF key \in DOMAIN data.fields THEN data.fields[key] ELSE <<>>

\* str(e) of the AttributeError that data.get raises when data is no dict.
NoGet(data) ==
  IF data.kind = "array" THEN "'list' object has no attribute 'get'"
  ELSE "'NoneType' object has no attribute 'get'"

\* jsonify({"error": message}), 400
ClientError(message) == [NoResponse EXCEPT !.status = 400, !.error = message]

\* except Exception as e: jsonify({"error": str(e)}), 200: the status left out.
ServerErrorNoStatus(message) == [NoResponse EXCEPT !.status = 200, !.error = message]

\* except Exception as e: return jsonify({"error": str(e)}), 500
ServerError(message) == [NoResponse EXCEPT !.status = 500, !.error = message]

HttpInit ==
  /\ route \in {"ask", "doctors"}
  /\ body \in (IF route = "ask" THEN AskBodies ELSE DoctorsBodies)
  /\ at = "validate"
  /\ calls = <<>>
  /\ question = <<>> /\ output_language = "" /\ agent_answer = <<>> /\ safe_response = <<>>
  /\ condition = <<>> /\ location = <<>> /\ intended = NoIntent /\ summ = <<>>
  /\ corrected_text = <<>> /\ summary = <<>> /\ response = NoResponse
  /\ MdIdle
  /\ CleanIdle

\* ask, lines 115-119: data = request.json; question = data.get("question", "");
\* if not question: return 400.
AskValidate ==
  /\ route = "ask" /\ at = "validate"
  /\ IF body.kind # "object" THEN
       /\ response' = ServerError(NoGet(body))
       /\ at' = "responded"
       /\ UNCHANGED question
     ELSE IF Get(body, "question") = <<>> THEN
       /\ question' = <<>>
       /\ response' = ClientError("No question provided")
       /\ at' = "responded"
     ELSE
       /\ question' = Get(body, "question")
       /\ at' = "detect"
       /\ UNCHANGED response
  /\ UNCHANGED <<route, body, calls, output_language, agent_answer, safe_response, condition,
                 location, intended, summ, corrected_text, summary>>
  /\ UNCHANGED <<mdVars, cleanVars>>

\* ask, line 122: output_language = detect(question)
AskDetect ==
  /\ route = "ask" /\ at = "detect"
  /\ calls' = Append(calls, "detect")
  /\ \/ \E lang \in Languages :
          /\ output_language' = lang
          /\ at' = "agent"
          /\ UNCHANGED response
     \/ /\ response' = ServerError("No features in text.")
        /\ at' = "responded"
        /\ UNCHANGED output_language
  /\ UNCHANGED <<route, body, question, agent_answer, safe_response, condition, location,
                 intended, summ, corrected_text, summary>>
  /\ UNCHANGED <<mdVars, cleanVars>>

\* ask, lines 125-132: the agent's answer, cleaned, and its inline-safe form
AskAgent ==
  /\ route = "ask" /\ at = "agent"
  /\ calls' = Append(calls, "main_agent.run")
  /\ \/ \E output \in AgentOutputs :
          /\ agent_answer' = format_text(remove_markdown(output))
          /\ safe_response' = InlineSafe(agent_answer')
          /\ at' = "summ"
          /\ UNCHANGED response
     \/ /\ response' = ServerError("main_agent.run failed")
        /\ at' = "responded"
        /\ UNCHANGED <<agent_answer, safe_response>>
  /\ UNCHANGED <<route, body, question, output_language, condition, location, intended, summ,
                 corrected_text, summary>>
  /\ UNCHANGED <<mdVars, cleanVars>>

\* ask, lines 135-139: summ = summ_model.run({...})["data"]
AskSumm ==
  /\ route = "ask" /\ at = "summ"
  /\ calls' = Append(calls, "summ_model.run")
  /\ \/ \E i \in Intents :
          /\ intended' = i
          /\ summ' = Sent(i.mode, i.original)
          /\ at' = "repair"
          /\ UNCHANGED response
     \/ /\ response' = ServerError("summ_model.run failed")
        /\ at' = "responded"
        /\ UNCHANGED <<intended, summ>>
  /\ UNCHANGED <<route, body, question, output_language, agent_answer, safe_response, condition,
                 location, corrected_text, summary>>
  /\ UNCHANGED <<mdVars, cleanVars>>

\* ask, lines 140-150: the repair, the summary cleaned, the response; the
\* exception of a failed repair is answered with its description and 500.
AskRepair ==
  /\ route = "ask" /\ at = "repair"
  /\ IF Repair(summ).ok THEN
       /\ corrected_text' = Repair(summ).val
       /\ summary' = format_text(remove_markdown(corrected_text'))
       /\ response' = [NoResponse EXCEPT !.status = 200, !.response = agent_answer,
                                         !.summary = summary']
     ELSE
       /\ response' = ServerError(Repair(summ).error)
       /\ UNCHANGED <<corrected_text, summary>>
  /\ at' = "responded"
  /\ UNCHANGED <<route, body, calls, question, output_language, agent_answer, safe_response,
                 condition, location, intended, summ>>
  /\ UNCHANGED <<mdVars, cleanVars>>

\* find_doctors, lines 156-161
DoctorsValidate ==
  /\ route = "doctors" /\ at = "validate"
  /\ IF body.kind # "object" THEN
       /\ response' = ServerError(NoGet(body))
       /\ at' = "responded"
       /\ UNCHANGED <<condition, location>>
     ELSE
       /\ condition' = Get(body, "condition")
       /\ location' = Get(body, "location")
       /\ IF condition' = <<>> \/ location' = <<>> THEN
            /\ response' = ClientError("Condition and location required")
            /\ at' = "responded"
          ELSE
            /\ at' = "run"
            /\ UNCHANGED response
  /\ UNCHANGED <<route, body, calls, question, output_language, agent_answer, safe_response,
                 intended, summ, corrected_text, summary>>
  /\ UNCHANGED <<mdVars, cleanVars>>

\* find_doctors, lines 164-167: doctors = doc_model.run({...})
DoctorsRun ==
  /\ route = "doctors" /\ at = "run"
  /\ calls' = Append(calls, "doc_model.run")
  /\ \/ \E i \in Intents :
          /\ intended' = i
          /\ summ' = Sent(i.mode, i.original)
          /\ at' = "repair"
          /\ UNCHANGED response
     \/ /\ response' = ServerError("doc_model.run failed")
        /\ at' = "responded"
        /\ UNCHANGED <<intended, summ>>
  /\ UNCHANGED <<route, body, question, output_language, agent_answer, safe_response, condition,
                 location, corrected_text, summary>>
  /\ UNCHANGED <<mdVars, cleanVars>>

\* find_doctors, lines 169-174: doc_response = doctors.data.encode('latin1').decode('utf-8')
DoctorsRepair ==
  /\ route = "doctors" /\ at = "repair"
  /\ IF Repair(summ).ok THEN
       /\ corrected_text' = Repair(summ).val
       /\ response' = [NoResponse EXCEPT !.status = 200, !.doctors = corrected_text']
     ELSE
       /\ response' = ServerError(Repair(summ).error)
       /\ UNCHANGED corrected_text
  /\ at' = "responded"
  /\ UNCHANGED <<route, body, calls, question, output_language, agent_answer, safe_response,
                 condition, location, intended, summ, summary>>
  /\ UNCHANGED <<mdVars, cleanVars>>

HttpNext ==
  \/ AskValidate \/ AskDetect \/ AskAgent \/ AskSumm \/ AskRepair
  \/ DoctorsValidate \/ DoctorsRun \/ DoctorsRepair

SpecHttp == HttpInit /\ [][HttpNext]_vars
(***************************************************************************)
(* Claims about remove_markdown and format_text (SpecMarkdown)             *)
(***************************************************************************)

\* Whether origin is p ++ "**" ++ inner ++ "**" ++ rest, the first marker at i and
\* the second at j, with no '*' in p and neither '*' nor a newline in inner.
BoldSpanAt(s, i, j) ==
  /\ i + 2 <= j
  /\ j + 1 <= Len(s)
  /\ s[i] = Star /\ s[i + 1] = Star /\ s[j] = Star /\ s[j + 1] = Star
  /\ \A k \in 1..(i - 1) : s[k] # Star
  /\ \A k \in (i + 2)..(j - 1) : s[k] \notin {Star, NL}

\* C1 as the spec states it: remove_markdown deletes only the two ** markers of a
\* bold span and keeps the inner text: "**Title** body" becomes "Title body", and
\* the inner text of a bold span still appears in the output.
C1_BoldKeepsInnerText ==
  applied = <<"remove_markdown">> =>
    /\ origin = BoldExample =>
         text = Str(<<"T", "i", "t", "l", "e", " ", "b", "o", "d", "y">>)
    /\ \A i \in 1..Len(origin), j \in 1..Len(origin) :
         (BoldSpanAt(origin, i, j) /\ \A k \in (i + 2)..(j - 1) : origin[k] = Ord("a"))
           => Contains(text, SubSeq(origin, i + 2, j - 1))

\* C1 amended: remove_markdown deletes every minimally matched **...** span whole,
\* the markers and the inner text: the output has no '*', it is the output for
\* the input without the span, and "**Title** body" becomes "body".
C1_BoldSpanDeletedWhole ==
  applied = <<"remove_markdown">> =>
    /\ Star \notin Range(text)
    /\ origin = BoldExample => text = Str(<<"b", "o", "d", "y">>)
    /\ \A i \in 1..Len(origin), j \in 1..Len(origin) :
         BoldSpanAt(origin, i, j) =>
           text = remove_markdown(SubSeq(origin, 1, i - 1) \o SubSeq(origin, j + 2, Len(origin)))

\* C1 witness: remove_markdown has run on "**Title** body".
C1_Witness ==
  /\ applied = <<"remove_markdown">>
  /\ origin = BoldExample
  /\ text = Str(<<"b", "o", "d", "y">>)

\* C2 as the spec states it: format_text(remove_markdown(.)) is idempotent: applied
\* to its own output it returns that output.
C2_CleanIsIdempotent ==
  (pass = 2 /\ applied = <<"remove_markdown", "format_text">>) => text = origin

RECURSIVE SubBulletLineStart(_, _)
\* The bullet pass had the pattern been anchored: ^[\*\-] with re.MULTILINE.
SubBulletLineStart(t, i) ==
  IF i > Len(t) THEN <<>>
  ELSE IF /\ i + 1 <= Len(t) /\ t[i] \in {Star, Dash} /\ t[i + 1] = Space
          /\ (i = 1 \/ t[i - 1] = NL)
    THEN SubBulletLineStart(t, i + 2)
  ELSE <<t[i]>> \o SubBulletLineStart(t, i + 1)

\* C9 as the spec states it: the bullet pass removes "* " and "- " only at the
\* start of a line, so remove_markdown returns what the line-anchored pass gives
\* and a "- " in the middle of a line survives.
C9_BulletOnlyAtLineStart ==
  applied = <<"remove_markdown">> =>
    text = Strip(SubNewlines(SubSymbols(SubBulletLineStart(SubBold(origin, 1), 1)), 1))

\* The lines of s that format_text keeps: those with a non-whitespace character.
KeptLines(s) ==
  SelectSeq(Split(s, <<NL>>), LAMBDA l : \E k \in 1..Len(l) : l[k] \notin Whitespace)

\* C10 as the spec states it: format_text returns the non-blank lines unchanged,
\* in order, joined by "\n\n".
C10_LinesUnchanged ==
  applied = <<"format_text">> => text = Join(<<NL, NL>>, KeptLines(origin))

\* C10 amended: format_text returns the non-blank lines, each trimmed of leading
\* and trailing whitespace, in order, joined by "\n\n"; "a\n\n\nb\n  \nc" gives
\* "a\n\nb\n\nc".
C10_LinesTrimmedAndJoined ==
  applied = <<"format_text">> =>
    LET kept == KeptLines(origin)
        out == IF text = <<>> THEN <<>> ELSE Split(text, <<NL, NL>>)
    IN /\ Len(out) = Len(kept)
       /\ \A k \in 1..Len(out) :
            /\ out[k] # <<>>
            /\ NL \notin Range(out[k])
            /\ out[k][1] \notin Whitespace
            /\ out[k][Len(out[k])] \notin Whitespace
            /\ \E a \in 0..Len(kept[k]), b \in 0..Len(kept[k]) :
                 /\ a + Len(out[k]) + b = Len(kept[k])
                 /\ SubSeq(kept[k], a + 1, a + Len(out[k])) = out[k]
                 /\ \A m \in (1..a) \cup ((Len(kept[k]) - b + 1)..Len(kept[k])) :
                      kept[k][m] \in Whitespace
       /\ origin = ParagraphExample =>
            text = Str(<<"a", "\n", "\n", "b", "\n", "\n", "c">>)

\* C10 witness: format_text has run on "  a  \n\n b", a text with a blank line and
\* lines that have whitespace around their words.
C10_Witness ==
  /\ applied = <<"format_text">>
  /\ origin = PaddedExample
  /\ text = Str(<<"a", "\n", "\n", "b">>)

(***************************************************************************)
(* Claims about clean_and_format_response (SpecClean)                      *)
(***************************************************************************)

\* C3 as the spec states it: clean_and_format_response never raises: whatever
\* the argument, the call ends by returning a string.
C3_NeverRaises ==
  step = "done" => returned.kind = "str"

\* Whether the boundary pattern matches the characters i..e of s: "http://" or
\* "https://", one or more non-whitespace characters, "\nSource:", any
\* characters, "\nDate: ", any characters, and two newlines that end at e.
BoundaryMatch(s, i, e) ==
  \E b \in {i + 7, i + 8} :
    /\ \/ b = i + 7 /\ OccursAt(s, HttpScheme, i)
       \/ b = i + 8 /\ OccursAt(s, HttpsScheme, i)
    /\ \E u \in (b + 1)..Len(s) :
         /\ OccursAt(s, SourceLine, u)
         /\ \A k \in b..(u - 1) : s[k] \notin Whitespace
         /\ \E d \in (u + 8)..(e - 8) :
              /\ OccursAt(s, DateLine, d)
              /\ OccursAt(s, BlankLine, e - 1)

\* The indices at which a match of the boundary pattern that starts at i ends.
BoundaryEnds(s, i) == {e \in 1..Len(s) : BoundaryMatch(s, i, e)}

\* The indices at which a match of the boundary pattern starts.
BoundaryStarts(s) == {i \in 1..Len(s) : BoundaryEnds(s, i) # {}}

Least(S) == CHOOSE x \in S : \A y \in S : x <= y

LastMarkerAt(s, k) ==
  /\ OccursAt(s, DataMarker, k)
  /\ \A m \in (k + 1)..Len(s) : ~OccursAt(s, DataMarker, m)

\* C8 as the spec states it: with a "data=" in the argument the payload is what
\* follows the last "data=", its leading and trailing run of ( ) ' removed;
\* without one the payload is the whole argument, unchanged.
C8_UnwrapLastMarkerOrNoOp ==
  step = "decode" =>
    /\ \A k \in 1..Len(raw_arg) :
         LastMarkerAt(raw_arg, k) =>
           raw_response = StripSet(SubSeq(raw_arg, k + 5, Len(raw_arg)), WrapperChars)
    /\ (\A k \in 1..Len(raw_arg) : ~OccursAt(raw_arg, DataMarker, k)) => raw_response = raw_arg

\* C8 amended: with a "data=" in the argument the payload is what follows the
\* last "data=", trimmed of leading and trailing whitespace and then of its
\* leading and trailing run of ( ) '; without one the payload is the whole
\* argument with its leading and trailing run of ( ) ' removed.
\* "Wrapper(data='X\\nY')" yields X, backslash, n, Y, which the escape decoding
\* turns into X, newline, Y.
C8_UnwrapLastMarkerAndStrip ==
  /\ step = "decode" =>
       /\ \A k \in 1..Len(raw_arg) :
            LastMarkerAt(raw_arg, k) =>
              raw_response = StripSet(StripSet(SubSeq(raw_arg, k + 5, Len(raw_arg)), Whitespace),
                                      WrapperChars)
       /\ (\A k \in 1..Len(raw_arg) : ~OccursAt(raw_arg, DataMarker, k)) =>
            raw_response = StripSet(raw_arg, WrapperChars)
       /\ raw_arg = EnvelopeExample => raw_response = Str(<<"X", "\\", "n", "Y">>)
  /\ (step = "search" /\ raw_arg = EnvelopeExample) =>
       raw_response = Str(<<"X", "\n", "Y">>)

\* C8 witness: the unwrapping has run on an argument with two markers and a
\* blank after the last one.
C8_Witness ==
  /\ step = "decode"
  /\ raw_arg = DataMarker \o DataMarker \o Str(<<" ", "X">>)
  /\ raw_response = Str(<<"X">>)

(***************************************************************************)
(* Claims about /ask and /doctors (SpecHttp)                               *)
(***************************************************************************)

\* Whether the handler has answered after the repair step ran on a text the
\* integration sent.
RepairRan == at = "responded" /\ intended.mode # "none"

\* C5: when the text sent is the UTF-8 bytes of s decoded as latin-1, the repair
\* step of /ask and /doctors returns exactly s.
C5_RepairRoundTrip ==
  (RepairRan /\ intended.mode = "misdecoded") =>
    /\ response.status = 200
    /\ corrected_text = intended.original
    /\ route = "doctors" => response.doctors = intended.original

\* C5 witness: the euro sign, sent as its three UTF-8 bytes read as latin-1, has
\* been repaired.
C5_Witness ==
  /\ RepairRan
  /\ intended = [mode |-> "misdecoded", original |-> <<8364>>]
  /\ summ = <<226, 130, 172>>
  /\ corrected_text = <<8364>>

\* C6 as the spec states it: applied to text that is not mis-decoded, plain ASCII
\* included, the repair step raises, and /ask and /doctors answer with the
\* failure description and status 500.
C6_RepairRaisesOnCorrectText ==
  (RepairRan /\ intended.mode = "correct") =>
    /\ response.status = 500
    /\ response.error # ""

\* C6 amended: the repair step raises when the text has a character above U+00FF
\* or when its latin-1 bytes are not well-formed UTF-8, as for every text whose
\* only non-ASCII character is its last one; it raises for no ASCII text, which
\* it returns unchanged. When it raises, /ask and /doctors answer with the
\* failure description and status 500; when it does not, with status 200 and
\* the text whose UTF-8 bytes are the characters sent.
C6_RepairRaisesOnUndecodableText ==
  RepairRan =>
    /\ response.status \in {200, 500}
    /\ (\E k \in 1..Len(summ) : summ[k] > 255) =>
         /\ response.status = 500
         /\ response.error = "'latin-1' codec can't encode character"
    /\ (/\ summ # <<>>
        /\ summ[Len(summ)] \in 128..255
        /\ \A k \in 1..(Len(summ) - 1) : summ[k] < 128) =>
         /\ response.status = 500
         /\ response.error = "'utf-8' codec can't decode byte"
    /\ (\A k \in 1..Len(summ) : summ[k] < 128) =>
         /\ response.status = 200
         /\ corrected_text = summ
    /\ response.status = 500 =>
         /\ response.error \in {"'latin-1' codec can't encode character",
                                "'utf-8' codec can't decode byte"}
         /\ response.response = <<>> /\ response.summary = <<>> /\ response.doctors = <<>>
    /\ response.status = 200 =>
         /\ response.error = ""
         /\ Utf8Encode(corrected_text).ok
         /\ Utf8Encode(corrected_text).bytes = summ

\* C6 witness: /ask has answered 500 with the decoding failure for a
\* correctly sent e-acute.
C6_Witness ==
  /\ RepairRan
  /\ route = "ask"
  /\ intended = [mode |-> "correct", original |-> <<233>>]
  /\ response.status = 500
  /\ response.error = "'utf-8' codec can't decode byte"

\* C7 as the spec states it: an /ask request whose body has no question field is
\* answered with status 400 and a short message, and no downstream call
\* (detect, main_agent.run, summ_model.run) is made.
C7_MissingQuestionIsClientError ==
  (route = "ask" /\ at = "responded" /\ "question" \notin DOMAIN body.fields) =>
    /\ response.status = 400
    /\ response.error = "No question provided"
    /\ calls = <<>>
====
